---------------------------- MODULE Spec2Model ----------------------------
(***************************************************************************)
(* Bouncing-disk WebGL animation (wasm/src/lib.rs, wasm/src/dom_utils.rs). *)
(*                                                                         *)
(* The state is the Screen struct returned by init_gl, together with the   *)
(* state of the WebGL context it owns (bound buffer, buffer stores,        *)
(* vertex attribute pointers, uniforms, the calls issued by the last       *)
(* operation and the last draw).  The only operation after construction is *)
(* Screen::do_frame.                                                       *)
(*                                                                         *)
(* f64/f32 quantities are fixed-point integers: a length is counted in     *)
(* 1/Unit pixels, a random sample in 1/RandDen, so that the divisions by   *)
(* two of init_disks are exact.  Floating-point rounding below that        *)
(* resolution is not represented.                                          *)
(***************************************************************************)
EXTENDS Integers, Sequences, FiniteSets, TLC

VARIABLES screen, frames, initial, prev

vars == <<screen, frames, initial, prev>>

(***************************************************************************)
(* Bounds of the model.                                                    *)
(***************************************************************************)
MaxDiskNum == 3

MaxFrames == 8

(***************************************************************************)
(* Number representation.                                                  *)
(***************************************************************************)
\* f64 lengths are integers counted in 1/Unit pixels.
Unit == 8

\* rand.gen_range(0., 1.) yields j/RandDen for j in 0..RandDen-1.
RandDen == 2

RandomSamples == 0..(RandDen - 1)

Abs(n) == IF n < 0 THEN -n ELSE n

\* `n as f64` for a u32 n.
ToF64(n) == n * Unit

RECURSIVE Pow2(_)
Pow2(k) == IF k <= 0 THEN 1 ELSE 2 * Pow2(k - 1)

RECURSIVE F32Shift(_, _)
\* The number of low bits an f32 significand (24 bits) cannot hold of a.
F32Shift(a, p) == IF a < Pow2(24 + p) THEN p ELSE F32Shift(a, p + 1)

\* `v as f32`: round to 24 significant bits, ties to even.
AsF32(v) ==
    LET a == Abs(v)
        q == Pow2(F32Shift(a, 0))
        lo == (a \div q) * q
        rem == a - lo
        r == IF 2 * rem < q THEN lo
             ELSE IF 2 * rem > q THEN lo + q
             ELSE IF (lo \div q) % 2 = 0 THEN lo ELSE lo + q
    IN  IF v < 0 THEN -r ELSE r

\* Option<T>: <<>> is None, <<v>> is Some(v).
None == <<>>

Some(v) == <<v>>

UnwrapOr(o, d) == IF o = None THEN d ELSE o[1]

(***************************************************************************)
(* init_disks: the angle pi * (0.1 * i * random) is a multiple i*j of      *)
(* pi / (10 * RandDen); cos and sin are tabulated in thousandths.          *)
(***************************************************************************)
AngleTurn == 4 * 5 * RandDen

CosTable == <<1000, 988, 951, 891, 809, 707, 588, 454, 309, 156, 0>>

Cos(a) ==
    LET m == a % AngleTurn
        q == AngleTurn \div 4
    IN  IF m <= q THEN CosTable[m + 1]
        ELSE IF m <= 2 * q THEN -CosTable[2 * q - m + 1]
        ELSE IF m <= 3 * q THEN -CosTable[m - 2 * q + 1]
        ELSE CosTable[4 * q - m + 1]

Sin(a) == Cos(a + 3 * (AngleTurn \div 4))

\* velocity * t / 1000, rounded to the nearest 1/Unit.
MulTrig(velocity, t) ==
    LET p == velocity * t
    IN  IF p >= 0 THEN (p + 500) \div 1000 ELSE -((500 - p) \div 1000)

NewDisk(x, y, cos, sin) == [x |-> x, y |-> y, cos |-> cos, sin |-> sin]

\* The f64 value of sample j.
Random(j) == (j * ToF64(1)) \div RandDen

\* One iteration of the loop of init_disks; j is the sample drawn.
InitDisk(i, bound_x, bound_y, j) ==
    LET velocity == ToF64(1) + 3 * Random(j)
        angle == i * j
    IN  NewDisk(ToF64(bound_x) \div 2, ToF64(bound_y) \div 2,
                MulTrig(velocity, Cos(angle)), MulTrig(velocity, Sin(angle)))

\* rnd is the sequence of samples thread_rng() yields, one per disk.
init_disks(disk_num, bound_x, bound_y, rnd) ==
    [k \in 1..disk_num |-> InitDisk(k - 1, bound_x, bound_y, rnd[k])]


(***************************************************************************)
(* The WebGL context.  Each operator below is one WebGLRenderingContext    *)
(* call as the program issues it: it appends the call to g.calls and       *)
(* applies the call's effect on the context state.                         *)
(*   array_buffer  the buffer bound to ARRAY_BUFFER ("null" when none)     *)
(*   buffers       the data store of each buffer object                    *)
(*   pointer       per attribute location: the buffer and component count  *)
(*                 captured by vertexAttribPointer                         *)
(*   enabled       the locations whose vertex attribute array is enabled   *)
(*   generic       per location, the constant value set by vertexAttrib3f  *)
(*   uniforms      the uniforms of the program in use                      *)
(*   drawn         what the last drawArrays call rendered                  *)
(***************************************************************************)
AttribNames == <<"a_coords", "a_color">>

\* get_attrib_location: the location of an active attribute, -1 otherwise.
GetAttribLocation(name) ==
    IF \E k \in DOMAIN AttribNames : AttribNames[k] = name
    THEN (CHOOSE k \in DOMAIN AttribNames : AttribNames[k] = name) - 1
    ELSE -1

Locations == {GetAttribLocation(AttribNames[k]) : k \in DOMAIN AttribNames}

NoDraw == [count |-> -1, coords |-> <<>>, color |-> <<>>, pointsize |-> 0]

\* The context a canvas yields, with the two buffers init_gl creates.
NewContext ==
    [viewport |-> <<0, 0, 0, 0>>,
     program |-> "null",
     array_buffer |-> "null",
     buffers |-> [b \in {"buffer_coords", "buffer_color"} |-> <<>>],
     pointer |-> [l \in Locations |-> [buffer |-> "null", size |-> 0]],
     enabled |-> {},
     generic |-> [l \in Locations |-> <<0, 0, 0>>],
     uniforms |-> [u \in {"u_width", "u_height", "u_pointsize"} |-> 0],
     clears |-> 0,
     calls |-> <<>>,
     errors |-> <<>>,
     draws |-> 0,
     drawn |-> NoDraw]

Call(g, c) == [g EXCEPT !.calls = Append(@, c)]

GlError(g, e) == [g EXCEPT !.errors = Append(@, e)]

Viewport(g, x, y, w, h) ==
    [Call(g, <<"viewport">>) EXCEPT !.viewport = <<x, y, w, h>>]

UseProgram(g, p) == [Call(g, <<"use_program">>) EXCEPT !.program = p]

ClearColor(g) == Call(g, <<"clear_color">>)

Clear(g) == [Call(g, <<"clear">>) EXCEPT !.clears = @ + 1]

BindBuffer(g, b) ==
    [Call(g, <<"bind_buffer", b>>) EXCEPT !.array_buffer = b]

\* bufferData replaces the store of the buffer bound to ARRAY_BUFFER.
BufferData(g, data) ==
    LET c == Call(g, <<"buffer_data", g.array_buffer>>)
    IN  IF g.array_buffer = "null" THEN GlError(c, "INVALID_OPERATION")
        ELSE [c EXCEPT !.buffers[g.array_buffer] = data]

\* vertexAttribPointer captures the buffer bound to ARRAY_BUFFER.
VertexAttribPointer(g, loc, size) ==
    LET c == Call(g, <<"vertex_attrib_pointer", loc>>)
    IN  IF loc \notin Locations THEN GlError(c, "INVALID_VALUE")
        ELSE IF g.array_buffer = "null" THEN GlError(c, "INVALID_OPERATION")
        ELSE [c EXCEPT !.pointer[loc] =
                           [buffer |-> g.array_buffer, size |-> size]]

\* A location of -1 cast to u32 is out of range: INVALID_VALUE, no effect.
EnableVertexAttribArray(g, loc) ==
    LET c == Call(g, <<"enable_vertex_attrib_array", loc>>)
    IN  IF loc \notin Locations THEN GlError(c, "INVALID_VALUE")
        ELSE [c EXCEPT !.enabled = @ \cup {loc}]

VertexAttrib3f(g, loc, r, gr, b) ==
    LET c == Call(g, <<"vertex_attrib3f", loc>>)
    IN  IF loc \notin Locations THEN GlError(c, "INVALID_VALUE")
        ELSE [c EXCEPT !.generic[loc] = <<r, gr, b>>]

Uniform1f(g, u, v) == [Call(g, <<"uniform1f", u>>) EXCEPT !.uniforms[u] = v]

\* The value vertex k (from 0) fetches for attribute loc: from the array
\* when it is enabled, the generic constant otherwise.
Fetch(g, loc, k) ==
    IF loc \in g.enabled
    THEN LET p == g.pointer[loc]
         IN  SubSeq(g.buffers[p.buffer], p.size * k + 1, p.size * (k + 1))
    ELSE g.generic[loc]

\* drawArrays fails with INVALID_OPERATION when an enabled array has no
\* buffer or a vertex lies outside its store, INVALID_VALUE when count < 0.
CanDraw(g, count) ==
    \A loc \in g.enabled :
        /\ g.pointer[loc].buffer # "null"
        /\ g.pointer[loc].size * count <= Len(g.buffers[g.pointer[loc].buffer])

DrawArrays(g, first, count) ==
    LET c == [Call(g, <<"draw_arrays", count>>) EXCEPT !.draws = @ + 1]
    IN  IF count < 0 THEN GlError(c, "INVALID_VALUE")
        ELSE IF ~CanDraw(g, count) THEN GlError(c, "INVALID_OPERATION")
        ELSE [c EXCEPT !.drawn =
                [count |-> count,
                 coords |-> [k \in 1..count |->
                               Fetch(g, GetAttribLocation("a_coords"), k - 1)],
                 color |-> [k \in 1..count |->
                               Fetch(g, GetAttribLocation("a_color"), k - 1)],
                 pointsize |-> g.uniforms["u_pointsize"]]]

(***************************************************************************)
(* dom_utils.rs                                                            *)
(***************************************************************************)
get_webgl_context_by_id(width, height) == Viewport(NewContext, 0, 0, width, height)

create_program(g) ==
    EnableVertexAttribArray(UseProgram(g, "program"),
                            GetAttribLocation("aVertexPosition"))


(***************************************************************************)
(* lib.rs: Screen                                                          *)
(***************************************************************************)
\* Mutant: a hit flips the velocity but leaves the disk where the move put it.
ReflectAxis_NoMirror(p, v, size, bound) ==
    IF p - size < 0 THEN <<p, Abs(v)>>
    ELSE IF p + size > bound THEN <<p, -Abs(v)>>
    ELSE <<p, v>>

\* Mutant: a hit halves the speed (an inelastic bounce).
ReflectAxis_Damped(p, v, size, bound) ==
    IF p - size < 0 THEN <<size - (p - size), Abs(v) \div 2>>
    ELSE IF p + size > bound
         THEN <<bound - (p + size - bound) - size, -(Abs(v) \div 2)>>
    ELSE <<p, v>>

\* Mutant: a hit negates the velocity instead of forcing its sign.
ReflectAxis_Negate(p, v, size, bound) ==
    IF p - size < 0 THEN <<size - (p - size), -v>>
    ELSE IF p + size > bound THEN <<bound - (p + size - bound) - size, -v>>
    ELSE <<p, v>>

\* on_animation_frame, lines 96-102 (x with width and cos) and 103-109
\* (y with height and sin): p is the position after the move, v the
\* velocity component; the result is <<position, velocity>>.
ReflectAxis(p, v, size, bound) ==
    IF p - size < 0 THEN <<size - (p - size), Abs(v)>>
    ELSE IF p + size > bound THEN <<bound - (p + size - bound) - size, -Abs(v)>>
    ELSE <<p, v>>

\* Mutant: x is reflected at the height and y at the width.
MoveDisk_SwappedBounds(d, size, width, height) ==
    LET rx == ReflectAxis(d.x + d.cos, d.cos, size, height)
        ry == ReflectAxis(d.y + d.sin, d.sin, size, width)
    IN  [x |-> rx[1], y |-> ry[1], cos |-> rx[2], sin |-> ry[2]]

\* One iteration of the loop of on_animation_frame.
MoveDisk(d, size, width, height) ==
    LET rx == ReflectAxis(d.x + d.cos, d.cos, size, width)
        ry == ReflectAxis(d.y + d.sin, d.sin, size, height)
    IN  [x |-> rx[1], y |-> ry[1], cos |-> rx[2], sin |-> ry[2]]

on_animation_frame(s) ==
    LET size == s.disk_size
        width == ToF64(s.width)
        height == ToF64(s.height)
    IN  [s EXCEPT !.disks =
            [k \in DOMAIN s.disks |-> MoveDisk(s.disks[k], size, width, height)]]

RECURSIVE FlatCoords_YX(_)
\* Mutant: each pair is pushed as (y, x).
FlatCoords_YX(disks) ==
    IF disks = <<>> THEN <<>>
    ELSE <<AsF32(Head(disks).y), AsF32(Head(disks).x)>>
             \o FlatCoords_YX(Tail(disks))

RECURSIVE FlatCoords(_)
\* disks.iter().flat_map(|d| vec![d.x as f32, d.y as f32]).collect()
FlatCoords(disks) ==
    IF disks = <<>> THEN <<>>
    ELSE <<AsF32(Head(disks).x), AsF32(Head(disks).y)>> \o FlatCoords(Tail(disks))

\* draw, lines 125-126.
DrawClear(s) == Clear(ClearColor(s.gl))

\* Mutant: the upload without binding the coordinate buffer first.
DrawUpload_NoBind(s, g) == BufferData(g, FlatCoords(s.disks))

\* draw, lines 128-146.
DrawUpload(s, g) ==
    BufferData(BindBuffer(g, s.buffer_coords), FlatCoords(s.disks))

\* draw, lines 147-156.
DrawCoordsAttrib(s, g) ==
    EnableVertexAttribArray(VertexAttribPointer(g, s.attrib_coords, 2),
                            s.attrib_coords)

\* Mutant: the colour attribute array is not enabled.
DrawColorAttrib_NoEnable(s, g) ==
    VertexAttrib3f(g, s.attrib_color, ToF64(1), 0, 0)

\* draw, lines 158-160.
DrawColorAttrib(s, g) ==
    VertexAttrib3f(EnableVertexAttribArray(g, s.attrib_color),
                   s.attrib_color, ToF64(1), 0, 0)

\* draw, lines 162-163.
DrawPointSize(s, g) == Uniform1f(g, s.uniform_point_size, AsF32(s.disk_size))

\* Mutant: one vertex too many.
DrawPoints_OneMore(s, g) == DrawArrays(g, 0, s.disk_num + 1)

\* draw, lines 165-166.
DrawPoints(s, g) == DrawArrays(g, 0, s.disk_num)

draw(s) ==
    [s EXCEPT !.gl =
        DrawPoints(s,
          DrawPointSize(s,
            DrawColorAttrib(s,
              DrawCoordsAttrib(s,
                DrawUpload(s,
                  DrawClear(s))))))]

\* Mutant: the draw runs before the simulation step.
do_frame_DrawFirst(s) == on_animation_frame(draw(s))

do_frame(s) == draw(on_animation_frame(s))

(***************************************************************************)
(* lib.rs: init_gl.  rnd is what thread_rng() yields for the disks, col    *)
(* what it yields for the colours.                                         *)
(***************************************************************************)
\* init_gl, lines 201-207.
InitUniforms(g, width, height) ==
    Uniform1f(Uniform1f(g, "u_height", AsF32(ToF64(width))),
              "u_width", AsF32(ToF64(height)))

\* init_gl, lines 210-214.
ColorBufferArray(disk_num, col) ==
    [k \in 1..(disk_num * 3) |-> AsF32(Random(col[k]))]

\* init_gl, lines 215-230.
InitColors(g, attrib_color, color_buffer_array) ==
    VertexAttribPointer(
        BufferData(BindBuffer(g, "buffer_color"), color_buffer_array),
        attrib_color, 3)

init_gl(options, rnd, col) ==
    LET width == UnwrapOr(options.width, 500)
        height == UnwrapOr(options.height, 500)
        disk_num == UnwrapOr(options.disk_num, 100)
        disk_size == UnwrapOr(options.disk_size, ToF64(32))
        context == get_webgl_context_by_id(width, height)
        used == UseProgram(create_program(context), "program")
        attrib_color == GetAttribLocation("a_color")
    IN  [gl |-> InitColors(InitUniforms(used, width, height), attrib_color,
                           ColorBufferArray(disk_num, col)),
         disks |-> init_disks(disk_num, width, height, rnd),
         disk_size |-> disk_size,
         disk_num |-> disk_num,
         width |-> width,
         height |-> height,
         uniform_point_size |-> "u_pointsize",
         attrib_coords |-> GetAttribLocation("a_coords"),
         buffer_coords |-> "buffer_coords",
         attrib_color |-> attrib_color]

(***************************************************************************)
(* The program: init_gl on some options, then do_frame once per animation  *)
(* tick.  frames counts the ticks, initial is the Screen init_gl returned    *)
(* and prev the DiskSet before the last tick.                              *)
(***************************************************************************)
\* The (width, height, disk_size) the host passes; None takes the default.
Viewports ==
    { <<None, None, None>>,
      <<Some(5), Some(5), Some(ToF64(1) \div 2)>>,
      <<Some(6), Some(5), Some(ToF64(1) \div 2)>>,
      <<Some(5), Some(3), Some(ToF64(1) \div 2)>>,
      <<Some(2), Some(5), Some(ToF64(1) \div 2)>>,
      <<Some(6), Some(2), Some(ToF64(1))>>,
      <<Some(2), Some(2), Some(ToF64(3) \div 2)>> }

InputOptions ==
    { [canvas_id |-> "canvas", disk_num |-> Some(n), width |-> v[1],
       height |-> v[2], disk_size |-> v[3], collision |-> None] :
         n \in 0..MaxDiskNum, v \in Viewports }

\* What thread_rng() may yield for the n disks: every sequence of samples.
Samples(n) == [1..n -> RandomSamples]

\* What thread_rng() may yield for the n colour values: the sequences
\* a, a + b, a + 2b, ... (modulo RandDen) of samples.
Streams(n) ==
    {[k \in 1..n |-> (a + b * (k - 1)) % RandDen] : a, b \in RandomSamples}

Init ==
    /\ \E o \in InputOptions :
         \E rnd \in Samples(o.disk_num[1]), col \in Streams(3 * o.disk_num[1]) :
            screen = init_gl(o, rnd, col)
    /\ frames = 0
    /\ initial = screen
    /\ prev = screen.disks

DoFrame ==
    /\ frames < MaxFrames
    /\ screen' = do_frame([screen EXCEPT !.gl.calls = <<>>, !.gl.errors = <<>>])
    /\ frames' = frames + 1
    /\ prev' = screen.disks
    /\ UNCHANGED initial

Next == DoFrame

Spec == Init /\ [][Next]_vars


(***************************************************************************)
(* The simulation step as a function: the Screen holds one disk whose      *)
(* position and velocity are drawn from bounded sets, and do_frame is      *)
(* applied to it.                                                          *)
(***************************************************************************)
\* (width, height, disk_size) of the step's inputs.
StepViewports ==
    { <<500, 500, ToF64(15)>>,
      <<6, 2, ToF64(1) \div 2>>,
      <<4, 4, ToF64(2)>>,
      <<4, 4, ToF64(3)>> }

StepPositions(bound, size) ==
    {q \in {size, ToF64(10), ToF64(bound) \div 2, ToF64(bound) - size} :
        0 <= q /\ q <= ToF64(bound)}

StepVelocities == {-ToF64(8), -ToF64(1), 0, ToF64(1), ToF64(8)}

InitStep ==
    /\ \E v \in StepViewports :
         \E x \in StepPositions(v[1], v[3]), y \in StepPositions(v[2], v[3]),
            cos \in StepVelocities, sin \in StepVelocities :
            screen = [init_gl([canvas_id |-> "canvas", disk_num |-> Some(1),
                               width |-> Some(v[1]), height |-> Some(v[2]),
                               disk_size |-> Some(v[3]), collision |-> None],
                              <<0>>, <<0, 0, 0>>)
                        EXCEPT !.disks = <<NewDisk(x, y, cos, sin)>>]
    /\ frames = 0
    /\ initial = screen
    /\ prev = screen.disks

SpecStep == InitStep /\ [][Next]_vars

(***************************************************************************)
(* Properties.                                                             *)
(***************************************************************************)
Disks == DOMAIN screen.disks

Width == ToF64(screen.width)

Height == ToF64(screen.height)

Size == screen.disk_size

\* The least upper bound of velocity = 1 + 3 * random, random < 1.
SpeedBound == ToF64(1) + 3 * ToF64(1)

Contained(d) ==
    /\ Size <= d.x /\ d.x <= Width - Size
    /\ Size <= d.y /\ d.y <= Height - Size

\* The positions in g.calls of the calls of one WebGL function.
CallsOf(fn) == {i \in DOMAIN screen.gl.calls : screen.gl.calls[i][1] = fn}

CallsWith(fn, arg) == {i \in CallsOf(fn) : screen.gl.calls[i][2] = arg}

ColorBuffer == screen.gl.buffers["buffer_color"]

CoordsBuffer == screen.gl.buffers["buffer_coords"]

\* C1 as stated: after every simulation step, in every configuration, every
\* disk centre lies in [disk_size, width - disk_size] x
\* [disk_size, height - disk_size].
C1_ContainedEveryConfiguration ==
    frames >= 1 => \A k \in Disks : Contained(screen.disks[k])

\* C1, amended: in every configuration whose free span on each axis
\* (width - 2 * disk_size, height - 2 * disk_size) is at least the speed
\* bound 4, every disk centre lies within the bounds after every step.
C1_ContainedWhenRoom ==
    (/\ frames >= 1
     /\ Width - 2 * Size >= SpeedBound
     /\ Height - 2 * Size >= SpeedBound)
        => \A k \in Disks : Contained(screen.disks[k])

\* A disk has just bounced off a wall in a configuration with room.
C1_Witness ==
    /\ frames >= 1
    /\ Width - 2 * Size >= SpeedBound
    /\ Height - 2 * Size >= SpeedBound
    /\ \E k \in Disks : screen.disks[k].cos # prev[k].cos

Crosses(p, bound) == p - Size < 0 \/ p + Size > bound

\* C2: |cos| and |sin| of every disk stay what init_disks made them; a tick
\* that crosses no boundary on an axis leaves that component unchanged, and
\* one that does changes at most its sign.
C2_VelocityMagnitudePreserved ==
    \A k \in Disks :
        LET d == screen.disks[k]
            o == prev[k]
        IN  /\ Abs(d.cos) = Abs(initial.disks[k].cos)
            /\ Abs(d.sin) = Abs(initial.disks[k].sin)
            /\ frames >= 1 =>
                 /\ ~Crosses(o.x + o.cos, Width) => d.cos = o.cos
                 /\ ~Crosses(o.y + o.sin, Height) => d.sin = o.sin
                 /\ d.cos \in {o.cos, -o.cos}
                 /\ d.sin \in {o.sin, -o.sin}

\* Some disk has had both components flipped, after more than one tick.
C2_Witness ==
    /\ frames >= 2
    /\ \E k \in Disks :
          /\ screen.disks[k].cos = -initial.disks[k].cos
          /\ screen.disks[k].cos # 0
          /\ screen.disks[k].sin = -initial.disks[k].sin
          /\ screen.disks[k].sin # 0

\* The mirror rule on one axis: q and w are the position and velocity after
\* the step, p the position after the move, v the velocity before.
Mirrored(q, w, p, v, bound) ==
    /\ p < Size => q = 2 * Size - p /\ w = Abs(v)
    /\ (p >= Size /\ p > bound - Size) =>
           q = 2 * (bound - Size) - p /\ w = -Abs(v)
    /\ (p >= Size /\ p <= bound - Size) => q = p /\ w = v

\* C3: one simulation step applies the mirror rule on each axis, and
\* x = 10, r = 15, width = 500, vx = -8 yields x = 28, vx = +8.
C3_MirrorReflection ==
    frames >= 1 =>
      \A k \in Disks :
        LET d == screen.disks[k]
            o == prev[k]
        IN  /\ Mirrored(d.x, d.cos, o.x + o.cos, o.cos, Width)
            /\ Mirrored(d.y, d.sin, o.y + o.sin, o.sin, Height)
            /\ (/\ o.x = ToF64(10) /\ o.cos = -ToF64(8)
                /\ Size = ToF64(15) /\ screen.width = 500)
                  => d.x = ToF64(28) /\ d.cos = ToF64(8)

\* The example of C3 has just been stepped.
C3_Witness ==
    /\ frames = 1
    /\ prev[1].x = ToF64(10) /\ prev[1].cos = -ToF64(8)
    /\ Size = ToF64(15) /\ screen.width = 500
    /\ screen.disks[1].x = ToF64(28)

\* C4: after init_gl, u_width holds the viewport width and u_height the
\* viewport height.
C4_UniformsHoldViewport ==
    /\ screen.gl.uniforms["u_width"] = AsF32(ToF64(screen.width))
    /\ screen.gl.uniforms["u_height"] = AsF32(ToF64(screen.height))

\* C5: every do_frame uploads exactly 2 * disk_num values
\* [x0, y0, x1, y1, ...] as f32 in DiskSet order to the coordinate buffer,
\* and issues one draw call of disk_num vertices, one per uploaded pair.
C5_CoordinateUpload ==
    frames >= 1 =>
      /\ Len(CoordsBuffer) = 2 * screen.disk_num
      /\ \A k \in Disks :
            /\ CoordsBuffer[2 * k - 1] = AsF32(screen.disks[k].x)
            /\ CoordsBuffer[2 * k] = AsF32(screen.disks[k].y)
      /\ Cardinality(CallsOf("draw_arrays")) = 1
      /\ screen.gl.drawn.count = screen.disk_num
      /\ 2 * screen.gl.drawn.count = Len(CoordsBuffer)
      /\ \A k \in 1..screen.gl.drawn.count :
            screen.gl.drawn.coords[k] =
                <<AsF32(screen.disks[k].x), AsF32(screen.disks[k].y)>>

\* Two disks at different places, with x # y, have been uploaded and drawn.
C5_Witness ==
    /\ frames >= 1
    /\ screen.disk_num = 2
    /\ screen.disks[1].x # screen.disks[2].x
    /\ screen.disks[2].x # screen.disks[2].y
    /\ screen.gl.drawn.count = 2

\* C6: init_gl fills the colour buffer once with disk_num * 3 values, and no
\* do_frame changes it: every upload of a frame targets the coordinate
\* buffer.
C6_ColorBufferStatic ==
    /\ Len(ColorBuffer) = screen.disk_num * 3
    /\ ColorBuffer = initial.gl.buffers["buffer_color"]
    /\ frames = 0 =>
          /\ Cardinality(CallsOf("buffer_data")) = 1
          /\ CallsOf("buffer_data") = CallsWith("buffer_data", "buffer_color")
    /\ frames >= 1 =>
          /\ CallsOf("buffer_data") # {}
          /\ CallsOf("buffer_data") = CallsWith("buffer_data", "buffer_coords")

\* Several frames have run over a colour buffer that is not uniform.
C6_Witness ==
    /\ frames >= 2
    /\ screen.disk_num = 2
    /\ ColorBuffer[1] # ColorBuffer[4]

\* The colours vertex k of the last draw must get: the k-th RGB triple
\* init_gl generated.
DiskColor(k) == SubSeq(initial.gl.buffers["buffer_color"], 3 * k - 2, 3 * k)

DrawnWithDiskColors ==
    /\ screen.gl.drawn.count = screen.disk_num
    /\ \A k \in 1..screen.disk_num : screen.gl.drawn.color[k] = DiskColor(k)

PointSizeSetBetween(i, j) ==
    /\ \E u \in CallsWith("uniform1f", "u_pointsize") : i < u /\ u < j
    /\ screen.gl.uniforms["u_pointsize"] = AsF32(screen.disk_size)
    /\ screen.gl.drawn.pointsize = AsF32(screen.disk_size)

\* C7 as stated: in every do_frame, between the coordinate upload and the
\* draw call, the colour buffer is bound again and the point-size uniform
\* is set from disk_size, and the draw takes a_color from the disk colours.
C7_RebindsColorBuffer ==
    frames >= 1 =>
      \E i \in CallsOf("buffer_data"), j \in CallsOf("draw_arrays") :
        /\ i < j
        /\ \E b \in CallsWith("bind_buffer", "buffer_color") : i < b /\ b < j
        /\ PointSizeSetBetween(i, j)
        /\ DrawnWithDiskColors

\* C7, amended: in every do_frame, between the coordinate upload and the
\* draw call, the a_color attribute array is enabled (its pointer was
\* attached to the colour buffer by init_gl; the colour buffer is not bound
\* again and ARRAY_BUFFER stays on the coordinate buffer) and the point-size
\* uniform is set from disk_size; the draw takes a_color from the disk
\* colours.
C7_EnablesColorArray ==
    frames >= 1 =>
      /\ \E i \in CallsOf("buffer_data"), j \in CallsOf("draw_arrays") :
            /\ i < j
            /\ \E e \in CallsWith("enable_vertex_attrib_array",
                                  screen.attrib_color) : i < e /\ e < j
            /\ PointSizeSetBetween(i, j)
      /\ CallsWith("bind_buffer", "buffer_color") = {}
      /\ screen.gl.array_buffer = screen.buffer_coords
      /\ screen.attrib_color \in screen.gl.enabled
      /\ screen.gl.pointer[screen.attrib_color] =
             [buffer |-> "buffer_color", size |-> 3]
      /\ DrawnWithDiskColors

\* A frame has drawn two disks whose colours differ from each other and
\* from the constant given to vertex_attrib3f.
C7_Witness ==
    /\ frames >= 1
    /\ screen.disk_num = 2
    /\ screen.gl.drawn.color[1] # screen.gl.drawn.color[2]
    /\ screen.gl.drawn.color[1] # screen.gl.generic[screen.attrib_color]

AtCentreAtRest(d) ==
    /\ d.x = Width \div 2 /\ d.y = Height \div 2
    /\ d.cos = 0 /\ d.sin = 0

\* C8 as stated: in every configuration a disk at the viewport centre with
\* velocity (0, 0) is still there, at rest, after any number of frames.
C8_CentreAtRestStays ==
    \A k \in Disks :
        AtCentreAtRest(initial.disks[k]) => screen.disks[k] = initial.disks[k]

\* C8, amended: the same, in every configuration where the disk fits the
\* viewport (2 * disk_size <= width and 2 * disk_size <= height).
C8_CentreAtRestStaysWhenFits ==
    (2 * Size <= Width /\ 2 * Size <= Height) =>
        \A k \in Disks :
            AtCentreAtRest(initial.disks[k]) =>
                screen.disks[k] = initial.disks[k]

\* A disk at rest at the centre of a viewport it fits, wider than high,
\* after several frames.
C8_Witness ==
    /\ frames >= 2
    /\ 2 * Size <= Height /\ Height < Width
    /\ AtCentreAtRest(initial.disks[1])

\* C9: with disk_num = 0 the DiskSet is empty, and every do_frame runs to
\* its draw call without a WebGL error, uploads an empty coordinate buffer
\* and draws zero vertices.
C9_NoDisks ==
    screen.disk_num = 0 =>
      /\ screen.disks = <<>>
      /\ frames >= 1 =>
            /\ CoordsBuffer = <<>>
            /\ CallsWith("buffer_data", "buffer_coords") # {}
            /\ screen.gl.errors = <<>>
            /\ screen.gl.calls[Len(screen.gl.calls)] = <<"draw_arrays", 0>>
            /\ screen.gl.drawn.count = 0
            /\ screen.gl.draws = frames

\* Frames have run on an empty DiskSet.
C9_Witness == screen.disk_num = 0 /\ frames >= 2

RECURSIVE StepN(_, _)
\* n simulation steps from s.
StepN(s, n) == IF n = 0 THEN s ELSE StepN(on_animation_frame(s), n - 1)

\* C10: each do_frame runs the simulation step once, then the draw once:
\* what tick k uploads and draws are the positions after k steps from the
\* initial DiskSet.
C10_StepThenDraw ==
    frames >= 1 =>
      LET now == StepN(initial, frames).disks
      IN  /\ screen.disks = now
          /\ CoordsBuffer = FlatCoords(now)
          /\ screen.gl.drawn.coords =
                 [k \in DOMAIN now |-> <<AsF32(now[k].x), AsF32(now[k].y)>>]
          /\ Cardinality(CallsOf("buffer_data")) = 1
          /\ Cardinality(CallsOf("draw_arrays")) = 1
          /\ screen.gl.draws = frames

\* The third tick has drawn a disk that the step moved.
C10_Witness ==
    /\ frames = 3
    /\ screen.disk_num >= 1
    /\ screen.disks[1] # prev[1]
    /\ screen.gl.drawn.coords[1] = <<AsF32(screen.disks[1].x), AsF32(screen.disks[1].y)>>

=============================================================================
